---- MODULE Spec2Model ----
(***************************************************************************)
(* Serial DFU uploader: the port-selection orchestrator (upload.rs), the   *)
(* acknowledged-frame session (serial.rs), the SLIP codec and the CRC.     *)
(***************************************************************************)
EXTENDS Integers, Sequences, FiniteSets, TLC

(* ------------------------------ bounds -------------------------------- *)

\* largest number of serial devices the host enumerates
MaxPorts == 3
\* largest number of read windows one acknowledgement wait may take
MaxReads == 2
\* longest byte sequence given to escape and unescape on their own
MaxCodecLen == 4
\* longest payload given to create_packet on its own
MaxDataLen == 5

(* ------------------------- program constants -------------------------- *)

DFU_INIT_PACKET == 1
DFU_START_PACKET == 3
DFU_DATA_PACKET == 4
DFU_STOP_DATA_PACKET == 5
DFU_MAX_PACKET_SIZE == 512
\* size of the buffer handed to read_all in wait_for_ack
READ_WINDOW == 6
\* SLIP frame marker and escape bytes
SLIP_END == 192
SLIP_ESC == 219
SLIP_ESC_END == 220
SLIP_ESC_ESC == 221
\* packet type of every header (HCI packet)
PKT_TYPE == 14
\* create_slip_header asserts pkt_len < 0x1000
PKT_LEN_LIMIT == 4096

(* --------------------------- byte arithmetic -------------------------- *)

RECURSIVE BitOp(_, _, _, _)
BitOp(f, a, b, n) ==
    IF n = 0 THEN 0
    ELSE f[a % 2][b % 2] + 2 * BitOp(f, a \div 2, b \div 2, n - 1)

\* nibble tables, computed once
XorNib == [a \in 0..15 |-> [b \in 0..15 |->
             BitOp([x \in 0..1 |-> [y \in 0..1 |-> (x + y) % 2]], a, b, 4)]]
OrNib  == [a \in 0..15 |-> [b \in 0..15 |->
             BitOp([x \in 0..1 |-> [y \in 0..1 |-> IF x + y > 0 THEN 1 ELSE 0]], a, b, 4)]]
AndNib == [a \in 0..15 |-> [b \in 0..15 |->
             BitOp([x \in 0..1 |-> [y \in 0..1 |-> x * y]], a, b, 4)]]

\* a bitwise operation on 16-bit values through a nibble table
Nib16(t, a, b) ==
      t[a % 16][b % 16]
    + 16 * t[(a \div 16) % 16][(b \div 16) % 16]
    + 256 * t[(a \div 256) % 16][(b \div 256) % 16]
    + 4096 * t[(a \div 4096) % 16][(b \div 4096) % 16]

Xor(a, b) == Nib16(XorNib, a, b)
Or(a, b)  == Nib16(OrNib, a, b)
And(a, b) == Nib16(AndNib, a, b)

\* u8 / u16 shifts: bits shifted out are lost
Shl8(a, n)  == (a * 2^n) % 256
Shl16(a, n) == (a * 2^n) % 65536
Shr(a, n)   == a \div 2^n

to_le_bytes16(v) == <<v % 256, (v \div 256) % 256>>

encode_int(v) ==
    <<v % 256, (v \div 256) % 256, (v \div 65536) % 256, (v \div 16777216) % 256>>

(* -------------------------------- crc.rs ------------------------------ *)

\* one iteration of the loop over the data bytes
crc_step(crc0, b) ==
    LET c1 == Or(And(Shr(crc0, 8), 255), And(Shl16(crc0, 8), 65280))
        c2 == Xor(c1, b)
        c3 == Xor(c2, Shr(And(c2, 255), 4))
        c4 == Xor(c3, Shl16(Shl16(c3, 8), 4))
        c5 == Xor(c4, Shl16(Shl16(And(c4, 255), 4), 1))
    IN  c5

\* the loop over data[lo..hi], in order; the range is split in halves and
\* the first half is evaluated before the second is entered, which keeps
\* the evaluation shallow
RECURSIVE crc_fold(_, _, _, _)
crc_fold(crc, data, lo, hi) ==
    IF lo > hi THEN crc
    ELSE IF lo = hi THEN crc_step(crc, data[lo])
    ELSE LET mid  == (lo + hi) \div 2
             left == crc_fold(crc, data, lo, mid)
         IN  IF left >= 0 THEN crc_fold(left, data, mid + 1, hi) ELSE left

calc_crc16(data, start) == crc_fold(start, data, 1, Len(data))

calc_crc16_default(data) == calc_crc16(data, 65535)

(* ------------------------------ serial.rs ----------------------------- *)

\* variant: the counter cycles through 1..7 and never returns to 0
next_sequence_number_skips_zero(sequence_number) == (sequence_number % 7) + 1

next_sequence_number(sequence_number) == (sequence_number + 1) % 8

\* variant: the parity byte negates the first byte only, then adds the rest
create_slip_header_negates_first(sequence_number, pkt_len) ==
    LET seq == next_sequence_number(sequence_number)
        dip == 1
        rp  == 1
        b1  == Or(Or(Or(seq, Shl8((seq + 1) % 8, 3)), Shl8(dip, 6)), Shl8(rp, 7))
        b2  == Or(PKT_TYPE, (And(pkt_len, 15) * 16) % 256)
        b3  == Shr(And(pkt_len, 4080), 4) % 256
        b4  == ((255 - b1) + b2 + b3 + 1) % 256
    IN  [bytes |-> <<b1, b2, b3, b4>>, seq |-> seq]

\* the header bytes and the sequence number used, from the counter before
\* the call; the counter after the call equals the sequence number used
create_slip_header(sequence_number, pkt_len) ==
    LET seq == next_sequence_number(sequence_number)
        dip == 1
        rp  == 1
        b1  == Or(Or(Or(seq, Shl8((seq + 1) % 8, 3)), Shl8(dip, 6)), Shl8(rp, 7))
        b2  == Or(PKT_TYPE, (And(pkt_len, 15) * 16) % 256)
        b3  == Shr(And(pkt_len, 4080), 4) % 256
        b4  == ((255 - ((b1 + b2 + b3) % 256)) + 1) % 256
    IN  [bytes |-> <<b1, b2, b3, b4>>, seq |-> seq]

\* variant: only the frame marker is escaped, the escape byte passes as is
RECURSIVE escape_body_marker_only(_, _, _)
escape_body_marker_only(unescaped, lo, hi) ==
    IF lo > hi THEN <<>>
    ELSE IF lo = hi THEN
        (IF unescaped[lo] = SLIP_END THEN <<SLIP_ESC, SLIP_ESC_END>>
         ELSE <<unescaped[lo]>>)
    ELSE LET mid == (lo + hi) \div 2
         IN  escape_body_marker_only(unescaped, lo, mid)
                 \o escape_body_marker_only(unescaped, mid + 1, hi)

\* the loop of escape over unescaped[lo..hi]
RECURSIVE escape_body(_, _, _)
escape_body(unescaped, lo, hi) ==
    IF lo > hi THEN <<>>
    ELSE IF lo = hi THEN
        (IF unescaped[lo] = SLIP_END THEN <<SLIP_ESC, SLIP_ESC_END>>
         ELSE IF unescaped[lo] = SLIP_ESC THEN <<SLIP_ESC, SLIP_ESC_ESC>>
         ELSE <<unescaped[lo]>>)
    ELSE LET mid == (lo + hi) \div 2
         IN  escape_body(unescaped, lo, mid) \o escape_body(unescaped, mid + 1, hi)

escape(unescaped) ==
    <<SLIP_END>> \o escape_body(unescaped, 1, Len(unescaped)) \o <<SLIP_END>>

\* variant: an escape byte followed by an unknown code lets the code through
RECURSIVE unescape_from_lenient(_, _, _)
unescape_from_lenient(bytes, k, res) ==
    IF k > Len(bytes) THEN [ok |-> TRUE, res |-> res]
    ELSE IF bytes[k] = SLIP_ESC THEN
        IF k + 1 > Len(bytes) THEN [ok |-> FALSE, res |-> res]
        ELSE IF bytes[k + 1] = SLIP_ESC_END
             THEN unescape_from_lenient(bytes, k + 2, Append(res, SLIP_END))
        ELSE IF bytes[k + 1] = SLIP_ESC_ESC
             THEN unescape_from_lenient(bytes, k + 2, Append(res, SLIP_ESC))
        ELSE unescape_from_lenient(bytes, k + 2, Append(res, bytes[k + 1]))
    ELSE unescape_from_lenient(bytes, k + 1, Append(res, bytes[k]))

\* variant: the decoder takes the frame markers out of its output
RECURSIVE unescape_from_drops_markers(_, _, _)
unescape_from_drops_markers(bytes, k, res) ==
    IF k > Len(bytes) THEN [ok |-> TRUE, res |-> res]
    ELSE IF bytes[k] = SLIP_ESC THEN
        IF k + 1 > Len(bytes) THEN [ok |-> FALSE, res |-> res]
        ELSE IF bytes[k + 1] = SLIP_ESC_END
             THEN unescape_from_drops_markers(bytes, k + 2, Append(res, SLIP_END))
        ELSE IF bytes[k + 1] = SLIP_ESC_ESC
             THEN unescape_from_drops_markers(bytes, k + 2, Append(res, SLIP_ESC))
        ELSE [ok |-> FALSE, res |-> res]
    ELSE IF bytes[k] = SLIP_END
    THEN unescape_from_drops_markers(bytes, k + 1, res)
    ELSE unescape_from_drops_markers(bytes, k + 1, Append(res, bytes[k]))

\* the iterator loop of unescape from position k with res accumulated;
\* ok = FALSE is the bail! of an escape byte followed by a wrong byte or
\* by the end of the input
RECURSIVE unescape_from(_, _, _)
unescape_from(bytes, k, res) ==
    IF k > Len(bytes) THEN [ok |-> TRUE, res |-> res]
    ELSE IF bytes[k] = SLIP_ESC THEN
        IF k + 1 > Len(bytes) THEN [ok |-> FALSE, res |-> res]
        ELSE IF bytes[k + 1] = SLIP_ESC_END
             THEN unescape_from(bytes, k + 2, Append(res, SLIP_END))
        ELSE IF bytes[k + 1] = SLIP_ESC_ESC
             THEN unescape_from(bytes, k + 2, Append(res, SLIP_ESC))
        ELSE [ok |-> FALSE, res |-> res]
    ELSE unescape_from(bytes, k + 1, Append(res, bytes[k]))

unescape(bytes) == unescape_from(bytes, 1, <<>>)

\* variant: only the payload is escaped, header and checksum go out as is
create_packet_payload_escaped(sequence_number, data) ==
    LET h   == create_slip_header(sequence_number, Len(data))
        crc == to_le_bytes16(calc_crc16_default(h.bytes \o data))
    IN  [packet |-> <<SLIP_END>> \o h.bytes \o escape_body(data, 1, Len(data))
                        \o crc \o <<SLIP_END>>,
         seq |-> h.seq]

\* the packet and the sequence number used
create_packet(sequence_number, data) ==
    LET h        == create_slip_header(sequence_number, Len(data))
        temp_res == h.bytes \o data
        with_crc == temp_res \o to_le_bytes16(calc_crc16_default(temp_res))
    IN  [packet |-> escape(with_crc), seq |-> h.seq]

\* the payloads of the four control packets (every image length of the
\* model fits the u32 that file.len() is cast to)
start_dfu_payload(file_size) ==
    encode_int(DFU_START_PACKET) \o encode_int(4) \o encode_int(0)
        \o encode_int(0) \o encode_int(file_size)

init_packet_payload(image_crc) ==
    encode_int(DFU_INIT_PACKET)
        \o <<255, 255, 255, 255, 255, 255, 255, 255, 1, 0, 254, 255>>
        \o to_le_bytes16(image_crc)
        \o <<0, 0>>

stop_packet_payload == encode_int(DFU_STOP_DATA_PACKET)

data_packet_payload(data) == encode_int(DFU_DATA_PACKET) \o data

\* variant: slice::chunks_exact, which leaves the remainder out
RECURSIVE chunks_exact(_, _)
chunks_exact(s, n) ==
    IF Len(s) < n THEN <<>>
    ELSE <<SubSeq(s, 1, n)>> \o chunks_exact(SubSeq(s, n + 1, Len(s)), n)

\* slice::chunks
RECURSIVE chunks(_, _)
chunks(s, n) ==
    IF Len(s) = 0 THEN <<>>
    ELSE IF Len(s) <= n THEN <<s>>
    ELSE <<SubSeq(s, 1, n)>> \o chunks(SubSeq(s, n + 1, Len(s)), n)

\* number of 0xc0 bytes in the accumulated response
RECURSIVE count_markers(_, _)
count_markers(bytes, k) ==
    IF k > Len(bytes) THEN 0
    ELSE (IF bytes[k] = SLIP_END THEN 1 ELSE 0) + count_markers(bytes, k + 1)

\* message[0] >> 3 & 0x07 on the unescaped response without its first and
\* last byte
ack_number(unescaped) == And(Shr(unescaped[2], 3), 7)

\* variant: the expected number is not reduced modulo 8
ack_matches_no_wrap(res, seq_nr) == res = seq_nr + 1

\* the comparison send_data makes on the acknowledged number
ack_matches(res, seq_nr) == res = (seq_nr + 1) % 8

(* --------------------------- the environment -------------------------- *)

Modes == {"AutoManufacturer", "SearchFirst", "SearchAll", "ChooseInteractive", "Named"}

\* a device identifier is the position of the device in the host's list
Ids == 1..MaxPorts

\* a listed device has no usb_info, usb_info of another chip, or the
\* vid/pid of the FTDI chip of the boards
Kinds == {"plain", "usb", "ftdi"}

SerialLists ==
    UNION {{[k \in 1..n |-> [name |-> k, kind |-> f[k]]] : f \in [1..n -> Kinds]}
           : n \in 0..MaxPorts}

\* firmware images: byte k of the image with pattern p
Image(len, p) == [k \in 1..len |-> (k * 7 + p) % 256]

ImageLens == {0, 1, 513}
LongImageLens == {0, 512, 1025, 2561}
ImagePats == {0, 185}
LongImagePats == {185}

Images == {Image(l, p) : l \in ImageLens, p \in ImagePats}
LongImages == {Image(l, p) : l \in LongImageLens, p \in LongImagePats}

\* the acknowledgement header a bootloader sends for ack number k
ack_header(k) ==
    LET b1 == Shl8(k, 3)
        b2 == PKT_TYPE
        b3 == 0
    IN  <<b1, b2, b3, ((255 - ((b1 + b2 + b3) % 256)) + 1) % 256>>

AckWindow(k) == <<SLIP_END>> \o ack_header(k) \o <<SLIP_END>>

\* what one read_all of six bytes may deliver: a well-formed acknowledgement
\* for any ack number, line noise without a marker, noise ending in the
\* opening marker, a frame with a broken escape, a frame with an escaped
\* marker, and a frame followed by a dangling escape byte
Windows ==
    {AckWindow(k) : k \in 0..7} \cup
    { <<0, 0, 0, 0, 0, 0>>,
      <<0, 0, 0, 0, 0, SLIP_END>>,
      <<SLIP_END, SLIP_ESC, 0, 0, 0, SLIP_END>>,
      <<SLIP_END, SLIP_ESC, SLIP_ESC_END, PKT_TYPE, 0, SLIP_END>>,
      <<SLIP_END, 8, PKT_TYPE, 0, SLIP_END, SLIP_ESC>> }

\* what the operator may do at the prompt: enter a number, enter a line
\* that parses as no number, or the terminal fails
OperatorInputs ==
    {[kind |-> "io_error", n |-> 0], [kind |-> "text", n |-> 0]} \cup
    {[kind |-> "number", n |-> k] : k \in 0..MaxPorts}

(* -------------------------------- state ------------------------------- *)

VARIABLES
    port,                   \* the PortSelector given to upload
    named,                  \* the name inside PortSelector::Named, else 0
    file,                   \* the image bytes given to upload
    dry_run,                \* the dry_run flag given to upload
    ftdi0,                  \* the device Ftdi::new() opens on this host
    pc,                     \* position of the call: call, prompt, loop, send, read, done
    ports,                  \* the list internal_choose_interactive presents
    ports_to_try,           \* Vec<Result<Serial>> of upload_internal
    stop_after_first_error, \* the policy flag of upload_internal
    cur,                    \* position of the for loop in ports_to_try
    errors,                 \* the errors vector of upload_internal
    result,                 \* what upload returned
    stage,                  \* position in try_do_upload: start, init, data, stop
    index,                  \* number of data chunks already acknowledged
    response,               \* the response vector of wait_for_ack
    wire,                   \* the write_all calls of the latest try_do_upload, in order
    attempts,               \* the candidates try_do_upload was called on, in order
    opened,                 \* every Serial::open call so far, in order
    enumerated,             \* whether get_serial_list was called
    reads,                  \* whether read_all was called
    last,                   \* outcome of the latest send_data call
    input,                  \* the line the operator entered at the latest prompt
    \* one call of escape, unescape or create_packet on its own
    u_pc,                   \* input, escaped, decoded, unescaped, packet
    u_data,                 \* the bytes given to the call
    u_seq,                  \* the sequence counter before create_packet
    u_len,                  \* the pkt_len given to create_slip_header
    u_ret,                  \* what the calls returned
    \* one call of wait_for_ack on its own, with its watcher thread
    a_pc,                   \* the caller: spawn, read, returned
    a_response,             \* the response vector, up to MaxReads windows of it
    a_more,                 \* parity of the windows read beyond those
    a_ret,                  \* what wait_for_ack returned
    tx,                     \* the sender of the channel: alive, sent, dropped
    elapsed,                \* SERIAL_TIMEOUT ran out before the read loop ended
    w_pc,                   \* the watcher: none, recv, exited
    printed                 \* why the watcher printed its message, or "no"

main_vars == <<port, named, file, dry_run, ftdi0, pc, ports, ports_to_try,
               stop_after_first_error, cur, errors, result, stage, index,
               response, wire, attempts, opened, enumerated, reads, last, input>>

codec_vars == <<u_pc, u_data, u_seq, u_len, u_ret>>

ack_vars == <<a_pc, a_response, a_more, a_ret, tx, elapsed, w_pc, printed>>

units == <<codec_vars, ack_vars>>

vars == <<main_vars, codec_vars, ack_vars>>

inputs == <<port, named, file, dry_run, ftdi0>>

NoResult == [kind |-> "none"]
NoSend == [cand |-> 0, seq |-> 0, outcome |-> "none", res |-> 0]
NoInput == [kind |-> "none", n |-> 0]
NoReturn == [kind |-> "none", val |-> 0]
NoBytes == [ok |-> TRUE, res |-> <<>>]

\* no call of the codec on its own is under way
CodecIdle ==
    /\ u_pc = "idle"
    /\ u_data = <<>>
    /\ u_seq = 0
    /\ u_len = 0
    /\ u_ret = NoBytes

\* no call of wait_for_ack on its own is under way
AckIdle ==
    /\ a_pc = "idle"
    /\ a_response = <<>>
    /\ a_more = 0
    /\ a_ret = NoReturn
    /\ tx = "none"
    /\ elapsed = FALSE
    /\ w_pc = "none"
    /\ printed = "no"

\* the call of upload with an image of images on a host whose Ftdi::new()
\* opens one of devices
InitWith(images, devices) ==
    /\ port \in Modes
    /\ named \in (IF port = "Named" THEN Ids ELSE {0})
    /\ file \in images
    /\ dry_run \in BOOLEAN
    /\ ftdi0 \in devices
    /\ pc = "call"
    /\ ports = <<>>
    /\ ports_to_try = <<>>
    /\ stop_after_first_error = FALSE
    /\ cur = 1
    /\ errors = <<>>
    /\ result = NoResult
    /\ stage = "none"
    /\ index = 0
    /\ response = <<>>
    /\ wire = <<>>
    /\ attempts = <<>>
    /\ opened = <<>>
    /\ enumerated = FALSE
    /\ reads = FALSE
    /\ last = NoSend
    /\ input = NoInput
    /\ CodecIdle
    /\ AckIdle

Init == InitWith(Images, Ids)

(* ------------------------------ selector.rs --------------------------- *)

\* the names of the listed devices that have usb_info
all_serial_ports(list) ==
    LET usb == SelectSeq(list, LAMBDA p : p.kind # "plain")
    IN  [k \in 1..Len(usb) |-> usb[k].name]

\* the listed devices with the vid/pid of the FTDI chip
matching_ports(list) == SelectSeq(list, LAMBDA p : p.kind = "ftdi")

(* ------------------------------ Serial::open -------------------------- *)

\* the device the handle of a Serial opened for path talks to
open_device(path, first_device) == first_device

\* Ok(Serial) or Err, as the driver decides
Serial_open(path, ok) ==
    IF ok
    THEN [ok |-> TRUE, path |-> path, dev |-> open_device(path, ftdi0),
          sequence_number |-> 0, open |-> TRUE]
    ELSE [ok |-> FALSE, path |-> path, dev |-> 0,
          sequence_number |-> 0, open |-> FALSE]

open_all(paths, oks) == [k \in 1..Len(paths) |-> Serial_open(paths[k], oks[k])]

open_log(handles) == [k \in 1..Len(handles) |->
                        [path |-> handles[k].path, dev |-> handles[k].dev,
                         ok |-> handles[k].ok]]

\* variant: the handle stays open when its Serial goes out of scope
drop_leaks(h) == [h EXCEPT !.sequence_number = 0]

\* dropping a Serial closes its handle and frees its counter
drop(h) == [h EXCEPT !.open = FALSE, !.sequence_number = 0]

\* dropping the vector drops every Serial in it
drop_all(handles) == [k \in 1..Len(handles) |-> drop(handles[k])]

(* ------------------------------- upload.rs ---------------------------- *)

\* return from upload_internal: every Serial still in the vector is dropped
Return(r, handles) ==
    /\ result' = r
    /\ pc' = "done"
    /\ ports_to_try' = drop_all(handles)

Ok(path) == [kind |-> "ok", path |-> path]
Err(e, path) == [kind |-> "err", err |-> e, path |-> path]

\* the candidates are collected, each one opened, and the loop is entered
Collect(paths, stop) ==
    \E oks \in [1..Len(paths) -> BOOLEAN] :
        /\ ports_to_try' = open_all(paths, oks)
        /\ opened' = open_log(open_all(paths, oks))
        /\ stop_after_first_error' = stop
        /\ pc' = "loop"
        /\ UNCHANGED result

\* internal_choose_interactive up to its prompt loop
BeginChoice(list) ==
    IF Len(list) = 0
    THEN /\ Return(Err("no_port", 0), ports_to_try)
         /\ UNCHANGED <<ports, opened, stop_after_first_error>>
    ELSE /\ ports' = list
         /\ pc' = "prompt"
         /\ UNCHANGED <<ports_to_try, opened, stop_after_first_error, result>>

\* variant: the check names the wrong selector
dry_run_invalid_wrong_mode(d, p) == d /\ p = "SearchFirst"

\* the combination upload_internal refuses
dry_run_invalid(d, p) == d /\ p = "SearchAll"

\* upload_internal from its entry to the for loop
upload_internal ==
    /\ pc = "call"
    /\ IF dry_run_invalid(dry_run, port)
       THEN /\ Return(Err("validation", 0), ports_to_try)
            /\ UNCHANGED <<ports, opened, stop_after_first_error, enumerated>>
       ELSE IF port = "Named"
       THEN /\ Collect(<<named>>, FALSE)
            /\ UNCHANGED <<ports, enumerated>>
       ELSE \E list \in SerialLists :
            /\ enumerated' = TRUE
            /\ CASE port = "SearchFirst" ->
                      Collect(all_serial_ports(list), TRUE) /\ UNCHANGED ports
                 [] port = "SearchAll" ->
                      Collect(all_serial_ports(list), FALSE) /\ UNCHANGED ports
                 [] port = "ChooseInteractive" -> BeginChoice(list)
                 [] port = "AutoManufacturer" ->
                      LET found == matching_ports(list)
                      IN  IF Len(found) = 0
                          THEN /\ Return(Err("no_port", 0), ports_to_try)
                               /\ UNCHANGED <<ports, opened, stop_after_first_error>>
                          ELSE IF Len(found) > 1 THEN BeginChoice(found)
                          ELSE Collect(<<found[1].name>>, TRUE) /\ UNCHANGED ports
    /\ UNCHANGED <<inputs, units, cur, errors, stage, index, response, wire, attempts,
                   reads, last, input>>

\* variant: swap_remove is taken to return the element moved into the gap
swap_remove_name_last(list, i) == list[Len(list)].name

\* ports.swap_remove(index).name for the 0-based index
swap_remove_name(list, i) == list[i + 1].name

\* one pass of the prompt loop of internal_choose_interactive: the operator
\* enters a number, something that is no number, or the terminal fails
internal_choose_interactive ==
    /\ pc = "prompt"
    /\ \E buf \in OperatorInputs :
        /\ input' = buf
        /\ IF buf.kind = "io_error"
           THEN /\ Return(Err("terminal", 0), ports_to_try)
                /\ UNCHANGED <<ports, opened, stop_after_first_error>>
           ELSE IF buf.kind = "number" /\ buf.n < Len(ports)
           THEN /\ Collect(<<swap_remove_name(ports, buf.n)>>, TRUE)
                /\ ports' = <<>>
           ELSE UNCHANGED <<pc, ports, ports_to_try, opened,
                            stop_after_first_error, result>>
    /\ UNCHANGED <<inputs, units, cur, errors, stage, index, response, wire, attempts,
                   enumerated, reads, last>>

\* variant: a single candidate is not treated as final
returns_error_flag_only(stop, num_ports) == stop

\* whether a pass of the for loop returns an error or continues after it
returns_error(stop, num_ports) == stop \/ num_ports = 1

\* variant: dry_run is not consulted
begins_upload_always(h, d) == h.ok

\* whether a pass of the for loop goes on to try_do_upload
begins_upload(h, d) == h.ok /\ ~d

\* variant: the error is not pushed onto errors
Fail_unrecorded(e) ==
    LET num_ports == Len(ports_to_try)
        path == ports_to_try[cur].path
    IN  IF returns_error(stop_after_first_error, num_ports)
        THEN /\ Return(Err(e, path), ports_to_try)
             /\ UNCHANGED <<errors, cur>>
        ELSE /\ errors' = errors
             /\ cur' = cur + 1
             /\ ports_to_try' = [ports_to_try EXCEPT ![cur] = drop(@)]
             /\ pc' = "loop"
             /\ UNCHANGED result

\* variant: the loop continues after every error
Fail_continues(e) ==
    LET path == ports_to_try[cur].path
    IN  /\ errors' = Append(errors, [err |-> e, path |-> path])
        /\ cur' = cur + 1
        /\ ports_to_try' = [ports_to_try EXCEPT ![cur] = drop(@)]
        /\ pc' = "loop"
        /\ UNCHANGED result

\* variant: a failed send_data is made again on the same candidate
Fail_resends(e) ==
    LET num_ports == Len(ports_to_try)
        path == ports_to_try[cur].path
    IN  IF e = "upload"
        THEN /\ pc' = "send"
             /\ UNCHANGED <<ports_to_try, errors, cur, result>>
        ELSE IF returns_error(stop_after_first_error, num_ports)
        THEN /\ Return(Err(e, path), ports_to_try)
             /\ UNCHANGED <<errors, cur>>
        ELSE /\ errors' = Append(errors, [err |-> e, path |-> path])
             /\ cur' = cur + 1
             /\ ports_to_try' = [ports_to_try EXCEPT ![cur] = drop(@)]
             /\ pc' = "loop"
             /\ UNCHANGED result

\* the attempt on the current candidate failed with e: "open" is the error
\* of Serial::open, "upload" the error of try_do_upload in its context
\* "failed to upload to port"; the cause of the latter is in last
Fail(e) ==
    LET num_ports == Len(ports_to_try)
        path == ports_to_try[cur].path
    IN  IF returns_error(stop_after_first_error, num_ports)
        THEN /\ Return(Err(e, path), ports_to_try)
             /\ UNCHANGED <<errors, cur>>
        ELSE /\ errors' = Append(errors, [err |-> e, path |-> path])
             /\ cur' = cur + 1
             /\ ports_to_try' = [ports_to_try EXCEPT ![cur] = drop(@)]
             /\ pc' = "loop"
             /\ UNCHANGED result

\* the head of one pass of the for loop, or its end
for_port ==
    /\ pc = "loop"
    /\ last' = NoSend
    /\ input' = NoInput
    /\ IF cur > Len(ports_to_try)
       THEN /\ Return(Err("none_worked", 0), ports_to_try)
            /\ UNCHANGED <<errors, cur, stage, index, wire, attempts>>
       ELSE IF ~ports_to_try[cur].ok
       THEN Fail("open") /\ UNCHANGED <<stage, index, wire, attempts>>
       ELSE IF ~begins_upload(ports_to_try[cur], dry_run)
       THEN /\ Return(Ok(ports_to_try[cur].path), ports_to_try)
            /\ UNCHANGED <<errors, cur, stage, index, wire, attempts>>
       ELSE /\ pc' = "send"
            /\ stage' = "start"
            /\ index' = 0
            /\ wire' = <<>>
            /\ attempts' = Append(attempts, cur)
            /\ UNCHANGED <<ports_to_try, errors, cur, result>>
    /\ UNCHANGED <<inputs, units, ports, stop_after_first_error, response,
                   opened, enumerated, reads>>

\* calc_crc16_default of every image of the model, evaluated once
file_crc == [image \in Images \cup LongImages |-> calc_crc16_default(image)]

\* variant: the init packet is sent before the start packet
payload_at_init_first(st, ix, image) ==
    CASE st = "start" -> init_packet_payload(file_crc[image])
      [] st = "init"  -> start_dfu_payload(Len(image))
      [] st = "data"  -> data_packet_payload(chunks(image, DFU_MAX_PACKET_SIZE)[ix + 1])
      [] st = "stop"  -> stop_packet_payload

\* the payload try_do_upload hands to send_data at a position
payload_at(st, ix, image) ==
    CASE st = "start" -> start_dfu_payload(Len(image))
      [] st = "init"  -> init_packet_payload(file_crc[image])
      [] st = "data"  -> data_packet_payload(chunks(image, DFU_MAX_PACKET_SIZE)[ix + 1])
      [] st = "stop"  -> stop_packet_payload

\* send_data up to the end of write_all
send_data ==
    /\ pc = "send"
    /\ LET h    == ports_to_try[cur]
           data == payload_at(stage, index, file)
           hdr  == create_slip_header(h.sequence_number, Len(data))
       IN  \E written \in BOOLEAN :
            /\ wire' = Append(wire, [cand |-> cur, path |-> h.path, dev |-> h.dev,
                                     header |-> hdr.bytes, seq |-> hdr.seq,
                                     data |-> data])
            /\ IF written
               THEN /\ ports_to_try' = [ports_to_try EXCEPT
                                          ![cur].sequence_number = hdr.seq]
                    /\ pc' = "read"
                    /\ response' = <<>>
                    /\ UNCHANGED <<errors, cur, result, last>>
               ELSE /\ last' = [cand |-> cur, seq |-> hdr.seq,
                                outcome |-> "write", res |-> 0]
                    /\ Fail("upload")
                    /\ UNCHANGED response
    /\ UNCHANGED <<inputs, units, ports, stop_after_first_error, stage, index,
                   attempts, opened, enumerated, reads, input>>

\* try_do_upload after an acknowledged send_data
Advance ==
    LET total == Len(chunks(file, DFU_MAX_PACKET_SIZE))
    IN  CASE stage = "start" ->
               /\ stage' = "init"
               /\ pc' = "send"
               /\ UNCHANGED <<index, ports_to_try, result>>
          [] stage = "init" ->
               /\ stage' = IF total = 0 THEN "stop" ELSE "data"
               /\ pc' = "send"
               /\ UNCHANGED <<index, ports_to_try, result>>
          [] stage = "data" ->
               /\ index' = index + 1
               /\ stage' = IF index + 1 = total THEN "stop" ELSE "data"
               /\ pc' = "send"
               /\ UNCHANGED <<ports_to_try, result>>
          [] stage = "stop" ->
               /\ Return(Ok(ports_to_try[cur].path), ports_to_try)
               /\ UNCHANGED <<stage, index>>

\* the rest of send_data once the read loop of wait_for_ack has ended
finish_send(bytes) ==
    LET seq_nr == ports_to_try[cur].sequence_number
        u      == unescape(bytes)
    IN  IF ~u.ok
        THEN /\ last' = [cand |-> cur, seq |-> seq_nr, outcome |-> "unescape", res |-> 0]
             /\ Fail("upload")
             /\ UNCHANGED <<stage, index>>
        ELSE IF Len(u.res) < 3
        THEN /\ last' = [cand |-> cur, seq |-> seq_nr, outcome |-> "panic", res |-> 0]
             /\ Return([kind |-> "panic"], ports_to_try)
             /\ UNCHANGED <<errors, cur, stage, index>>
        ELSE LET res == ack_number(u.res)
             IN  IF ~ack_matches(res, seq_nr)
                 THEN /\ last' = [cand |-> cur, seq |-> seq_nr,
                                  outcome |-> "sequence", res |-> res]
                      /\ Fail("upload")
                      /\ UNCHANGED <<stage, index>>
                 ELSE /\ last' = [cand |-> cur, seq |-> seq_nr,
                                  outcome |-> "acked", res |-> res]
                      /\ Advance
                      /\ UNCHANGED <<errors, cur>>

\* one pass of the read loop of wait_for_ack, and what follows the loop
\* when this pass ends it
wait_for_ack ==
    /\ pc = "read"
    /\ reads' = TRUE
    /\ \/ /\ last' = [cand |-> cur, seq |-> ports_to_try[cur].sequence_number,
                      outcome |-> "read", res |-> 0]
          /\ Fail("upload")
          /\ UNCHANGED <<response, stage, index>>
       \/ \E temp \in Windows :
            LET r == response \o temp
            IN  IF count_markers(r, 1) < 2
                THEN /\ Len(r) \div READ_WINDOW < MaxReads
                     /\ response' = r
                     /\ UNCHANGED <<pc, ports_to_try, errors, cur, result,
                                    stage, index, last>>
                ELSE /\ response' = <<>>
                     /\ finish_send(r)
    /\ UNCHANGED <<inputs, units, ports, stop_after_first_error, wire, attempts,
                   opened, enumerated, input>>

Next ==
    \/ upload_internal
    \/ internal_choose_interactive
    \/ for_port
    \/ send_data
    \/ wait_for_ack

Spec == Init /\ [][Next]_vars

\* the same program on images of up to six chunks, on a host whose first
\* FTDI device is device 1
InitLong == InitWith(LongImages, {1})
SpecLong == InitLong /\ [][Next]_vars

(* --------------------- the codec functions on their own --------------- *)

\* every sequence over alphabet of a length up to n
RECURSIVE SeqsUpTo(_, _)
SeqsUpTo(alphabet, n) ==
    IF n = 0 THEN {<<>>}
    ELSE LET shorter == SeqsUpTo(alphabet, n - 1)
         IN  shorter \cup {Append(q, b) : q \in shorter, b \in alphabet}

\* the bytes the codec treats differently, and one it does not
CodecBytes == {0, SLIP_END, SLIP_ESC, SLIP_ESC_END, SLIP_ESC_ESC}
DataBytes == {0, SLIP_END, SLIP_ESC}

\* the main program stands still
MainIdle ==
    /\ port = "Named"
    /\ named = 1
    /\ file = <<>>
    /\ dry_run = FALSE
    /\ ftdi0 = 1
    /\ pc = "idle"
    /\ ports = <<>>
    /\ ports_to_try = <<>>
    /\ stop_after_first_error = FALSE
    /\ cur = 1
    /\ errors = <<>>
    /\ result = NoResult
    /\ stage = 0
    /\ index = 0
    /\ response = <<>>
    /\ wire = <<>>
    /\ attempts = <<>>
    /\ opened = <<>>
    /\ enumerated = FALSE
    /\ reads = FALSE
    /\ last = NoSend
    /\ input = NoInput

InitCodec ==
    /\ MainIdle
    /\ AckIdle
    /\ u_pc = "input"
    /\ u_data \in SeqsUpTo(CodecBytes, MaxCodecLen)
    /\ u_seq = 0
    /\ u_len = 0
    /\ u_ret = NoBytes

\* escape(u_data)
call_escape ==
    /\ u_pc = "input"
    /\ u_pc' = "escaped"
    /\ u_ret' = [ok |-> TRUE, res |-> escape(u_data)]
    /\ UNCHANGED <<main_vars, ack_vars, u_data, u_seq, u_len>>

\* unescape of the escaped bytes without their first and last byte
call_unescape_escaped ==
    /\ u_pc = "escaped"
    /\ u_pc' = "decoded"
    /\ u_ret' = unescape(SubSeq(u_ret.res, 2, Len(u_ret.res) - 1))
    /\ UNCHANGED <<main_vars, ack_vars, u_data, u_seq, u_len>>

\* unescape(u_data)
call_unescape ==
    /\ u_pc = "input"
    /\ u_pc' = "unescaped"
    /\ u_ret' = unescape(u_data)
    /\ UNCHANGED <<main_vars, ack_vars, u_data, u_seq, u_len>>

NextCodec ==
    \/ call_escape
    \/ call_unescape_escaped
    \/ call_unescape

SpecCodec == InitCodec /\ [][NextCodec]_vars

InitPacket ==
    /\ MainIdle
    /\ AckIdle
    /\ u_pc = "input"
    /\ u_data \in SeqsUpTo(DataBytes, MaxDataLen)
    /\ u_seq \in 0..7
    /\ u_len = 0
    /\ u_ret = NoBytes

\* create_packet(u_data) on a Serial whose counter is u_seq
call_create_packet ==
    /\ u_pc = "input"
    /\ u_pc' = "packet"
    /\ u_ret' = [ok |-> TRUE, res |-> create_packet(u_seq, u_data).packet]
    /\ UNCHANGED <<main_vars, ack_vars, u_data, u_seq, u_len>>

NextPacket == call_create_packet

SpecPacket == InitPacket /\ [][NextPacket]_vars

(* ---------------------- create_slip_header on its own ----------------- *)

\* every counter value, and every length up to the first one the assert
\* at the head of create_slip_header refuses
InitHeader ==
    /\ MainIdle
    /\ AckIdle
    /\ u_pc = "input"
    /\ u_data = <<>>
    /\ u_seq \in 0..7
    /\ u_len \in 0..PKT_LEN_LIMIT
    /\ u_ret = NoBytes

\* the assert! at the head of create_slip_header
pkt_len_accepted(pkt_len) == pkt_len < PKT_LEN_LIMIT

\* create_slip_header(u_len) on a Serial whose counter is u_seq: the
\* counter is advanced to the sequence number used
call_create_slip_header ==
    /\ u_pc = "input"
    /\ IF pkt_len_accepted(u_len)
       THEN LET h == create_slip_header(u_seq, u_len)
            IN  /\ u_pc' = "header"
                /\ u_ret' = [ok |-> TRUE, res |-> h.bytes]
                /\ u_seq' = h.seq
       ELSE /\ u_pc' = "panic"
            /\ UNCHANGED <<u_ret, u_seq>>
    /\ UNCHANGED <<main_vars, ack_vars, u_data, u_len>>

NextHeader == call_create_slip_header

SpecHeader == InitHeader /\ [][NextHeader]_vars

(* ------------------- wait_for_ack with its watcher thread ------------- *)

InitAck ==
    /\ MainIdle
    /\ CodecIdle
    /\ a_pc = "spawn"
    /\ a_response = <<>>
    /\ a_more = 0
    /\ a_ret = NoReturn
    /\ tx = "none"
    /\ elapsed = FALSE
    /\ w_pc = "none"
    /\ printed = "no"

\* channel(), spawn of the watcher, and the empty response vector
ack_spawn ==
    /\ a_pc = "spawn"
    /\ a_pc' = "read"
    /\ tx' = "alive"
    /\ w_pc' = "recv"
    /\ UNCHANGED <<main_vars, codec_vars, a_response, a_more, a_ret, elapsed, printed>>

\* SERIAL_TIMEOUT runs out while the read loop is still going
timeout_elapses ==
    /\ a_pc = "read"
    /\ ~elapsed
    /\ elapsed' = TRUE
    /\ UNCHANGED <<main_vars, codec_vars, a_pc, a_response, a_more, a_ret, tx,
                   w_pc, printed>>

\* the windows that end the read loop at once and unescape to the fewest
\* bytes: two or more markers, the rest escape bytes and escape codes
DenseWindows ==
    {w \in [1..READ_WINDOW -> {SLIP_END, SLIP_ESC, SLIP_ESC_END}] :
        count_markers(w, 1) >= 2}

\* what one read_all of wait_for_ack on its own may deliver
StreamWindows == Windows \cup DenseWindows

\* what wait_for_ack returns once its read loop has ended with bytes
ack_result(bytes) ==
    LET u == unescape(bytes)
    IN  IF ~u.ok THEN [kind |-> "unescape_error", val |-> 0]
        ELSE IF Len(u.res) < 3 THEN [kind |-> "panic", val |-> 0]
        ELSE [kind |-> "ok", val |-> ack_number(u.res)]

\* one pass of the read loop, and the rest of wait_for_ack when the pass
\* ends the loop. The vector is kept up to MaxReads windows; further
\* windows are counted in a_more only, and are windows without a marker.
ack_read ==
    /\ a_pc = "read"
    /\ \/ /\ a_pc' = "returned"
          /\ tx' = "dropped"
          /\ \/ a_ret' = [kind |-> "read_error", val |-> 0] /\ UNCHANGED elapsed
             \/ a_ret' = [kind |-> "read_timeout", val |-> 0] /\ elapsed' = TRUE
          /\ UNCHANGED <<a_response, a_more>>
       \/ \E temp \in StreamWindows :
            LET r == a_response \o temp
            IN  IF Len(a_response) \div READ_WINDOW >= MaxReads
                THEN /\ count_markers(temp, 1) = 0
                     /\ a_more' = 1 - a_more
                     /\ UNCHANGED <<a_pc, a_response, a_ret, tx, elapsed>>
                ELSE IF count_markers(r, 1) < 2
                THEN /\ a_response' = r
                     /\ UNCHANGED <<a_pc, a_more, a_ret, tx, elapsed>>
                ELSE /\ a_response' = r
                     /\ tx' = "sent"
                     /\ a_ret' = ack_result(r)
                     /\ a_pc' = "returned"
                     /\ UNCHANGED <<a_more, elapsed>>
    /\ UNCHANGED <<main_vars, codec_vars, w_pc, printed>>

\* rx.recv_timeout(SERIAL_TIMEOUT).is_err() once the call has returned:
\* Err(Timeout) with the sender alive, Err(Disconnected) after its drop
recv_timeout_is_err(sender, late) ==
    \/ sender = "alive" /\ late
    \/ sender = "dropped"

\* the watcher thread: recv_timeout returns, the message is printed on Err
watcher ==
    /\ w_pc = "recv"
    /\ tx = "alive" => elapsed
    /\ w_pc' = "exited"
    /\ printed' = IF ~recv_timeout_is_err(tx, elapsed) THEN "no"
                  ELSE IF elapsed THEN "late" ELSE "early"
    /\ UNCHANGED <<main_vars, codec_vars, a_pc, a_response, a_more, a_ret, tx, elapsed>>

NextAck ==
    \/ ack_spawn
    \/ timeout_elapses
    \/ ack_read
    \/ watcher

\* both threads keep running
SpecAck ==
    /\ InitAck
    /\ [][NextAck]_vars
    /\ WF_vars(ack_spawn \/ ack_read)
    /\ WF_vars(watcher)

(* ------------------------- properties of a session -------------------- *)

Min(a, b) == IF a < b THEN a ELSE b

\* the number of data chunks of an image of length len
NumChunks(len) == (len + DFU_MAX_PACKET_SIZE - 1) \div DFU_MAX_PACKET_SIZE

\* bytes (k-1)*512+1 .. min(k*512, len) of the image
ImageSlice(image, k) ==
    SubSeq(image, (k - 1) * DFU_MAX_PACKET_SIZE + 1,
           Min(k * DFU_MAX_PACKET_SIZE, Len(image)))

\* the payload of the k-th frame of a complete handshake for image
HandshakePayload(image, k) ==
    IF k = 1 THEN encode_int(DFU_START_PACKET) \o encode_int(4) \o encode_int(0)
                    \o encode_int(0) \o encode_int(Len(image))
    ELSE IF k = 2 THEN encode_int(DFU_INIT_PACKET)
                    \o <<255, 255, 255, 255, 255, 255, 255, 255, 1, 0, 254, 255>>
                    \o to_le_bytes16(file_crc[image]) \o <<0, 0>>
    ELSE IF k <= NumChunks(Len(image)) + 2
         THEN encode_int(DFU_DATA_PACKET) \o ImageSlice(image, k - 2)
    ELSE encode_int(DFU_STOP_DATA_PACKET)

Succeeded == pc = "done" /\ result.kind = "ok"

\* the frames written so far are the first frames of the handshake, a
\* successful attempt wrote all N + 3 of them, and none beyond them
C1_FramesInOrder ==
    /\ Len(wire) <= NumChunks(Len(file)) + 3
    /\ \A k \in 1..Len(wire) : wire[k].data = HandshakePayload(file, k)
    /\ (Succeeded /\ ~dry_run) => Len(wire) = NumChunks(Len(file)) + 3

\* a step that writes a frame after the first starts where the latest
\* send_data was acknowledged, with the number the previous frame asked for
C1_AckedBeforeNextWrite ==
    (Len(wire') = Len(wire) + 1 /\ Len(wire) >= 1) =>
        /\ last.outcome = "acked"
        /\ last.cand = cur
        /\ last.seq = wire[Len(wire)].seq
        /\ last.res = (wire[Len(wire)].seq + 1) % 8

\* C1: in an attempt on one opened candidate the frames are written in the
\* order Start(image size), Init(checksum of image), Data 1..N, Stop; a frame
\* is written only after the previous frame's acknowledgement was read and
\* validated; Stop comes after all N data chunks; success means N + 3 frames
C1_HandshakeOrder == []C1_FramesInOrder /\ [][C1_AckedBeforeNextWrite]_vars

C1_Witness ==
    /\ Succeeded /\ ~dry_run
    /\ NumChunks(Len(file)) >= 3
    /\ Len(wire) = NumChunks(Len(file)) + 3

\* the chunks carried by the Data packets written so far, in order
IsData(f) == SubSeq(f.data, 1, 4) = encode_int(DFU_DATA_PACKET)
DataChunks ==
    LET d == SelectSeq(wire, IsData)
    IN  [k \in 1..Len(d) |-> SubSeq(d[k].data, 5, Len(d[k].data))]

RECURSIVE Flatten(_)
Flatten(ss) == IF Len(ss) = 0 THEN <<>> ELSE Head(ss) \o Flatten(Tail(ss))

ChunkLens == [k \in 1..Len(DataChunks) |-> Len(DataChunks[k])]

\* C2: a successful upload of an image of length L sends ceil(L/512) Data
\* packets, each of at most 512 bytes and all but the last of exactly 512,
\* whose concatenation in send order is the image; 1025 bytes go as 512,
\* 512, 1 and an empty image as Start, Init, Stop alone
C2_Chunking ==
    /\ \A k \in 1..Len(DataChunks) :
          /\ Len(DataChunks[k]) <= 512
          /\ k < Len(DataChunks) => Len(DataChunks[k]) = 512
    /\ Flatten(DataChunks) = SubSeq(file, 1, Len(Flatten(DataChunks)))
    /\ (Succeeded /\ ~dry_run) =>
          /\ Len(DataChunks) * 512 >= Len(file)
          /\ (Len(DataChunks) - 1) * 512 < Len(file) \/ Len(DataChunks) = 0
          /\ Flatten(DataChunks) = file
          /\ Len(file) = 1025 => ChunkLens = <<512, 512, 1>>
          /\ Len(file) = 0 => /\ DataChunks = <<>>
                              /\ [k \in 1..Len(wire) |-> wire[k].data[1]] = <<3, 1, 5>>

C2_Witness ==
    /\ Succeeded /\ ~dry_run
    /\ Len(file) = 1025
    /\ ChunkLens = <<512, 512, 1>>

\* C3: every opened candidate's counter is 0 until its session sends, stays
\* in 0..7, and the k-th frame of a session carries k mod 8 in the header and
\* expects it back, whatever earlier candidates sent
C3_SequenceNumbers ==
    /\ \A c \in 1..Len(ports_to_try) :
          /\ ports_to_try[c].sequence_number \in 0..7
          /\ (\A a \in 1..Len(attempts) : attempts[a] # c) =>
                ports_to_try[c].sequence_number = 0
    /\ \A k \in 1..Len(wire) :
          /\ wire[k].seq = k % 8
          /\ wire[k].header[1] % 8 = k % 8
    /\ pc \in {"send", "read"} =>
          ports_to_try[cur].sequence_number =
              (IF pc = "send" /\ Len(wire) = 0 THEN 0 ELSE Len(wire) % 8)

C3_Witness ==
    /\ Len(attempts) >= 2
    /\ Len(wire) >= 9
    /\ wire[7].seq = 7 /\ wire[8].seq = 0 /\ wire[9].seq = 1

\* the latest send_data obtained an acknowledged number
HasAck(l) == l.outcome \in {"acked", "sequence"}

\* the step ends a send_data call
EndsSend == pc \in {"send", "read"} /\ last' # last

\* the call that ended returned Ok: try_do_upload goes on or returns Ok
SendOk == pc' = "send" \/ (pc' = "done" /\ result'.kind = "ok")

C4_OnReturn ==
    EndsSend =>
        /\ last'.seq = wire'[Len(wire')].seq
        /\ SendOk <=> (HasAck(last') /\ last'.res = (last'.seq + 1) % 8)
        /\ (HasAck(last') /\ last'.res # (last'.seq + 1) % 8) =>
              last'.outcome = "sequence"
        /\ ~SendOk => \/ pc' = "loop"
                      \/ pc' = "done" /\ result'.kind = "err"

\* C4: send_data for a frame sent with sequence number S returns Ok exactly
\* when the write succeeded, an acknowledgement was read and unescaped and
\* its number is (S+1) mod 8; any other number, S included, is the
\* sequence-mismatch error
C4_AckValidation == [][C4_OnReturn]_vars

C4_Witness ==
    /\ last.outcome = "sequence"
    /\ last.res = last.seq
    /\ last.seq = 7

(* ----------------------- properties of the orchestrator --------------- *)

\* C5: when upload returns identifier p, every frame of the successful
\* handshake went to the transport p names, and every handle was opened
\* on the device its candidate's identifier names
C5_FramesGoToReturnedTransport ==
    /\ \A k \in 1..Len(opened) : opened[k].ok => opened[k].dev = opened[k].path
    /\ (Succeeded /\ ~dry_run) =>
          \A k \in 1..Len(wire) : wire[k].dev = result.path

\* the errors recorded so far are those of the candidates before cur, one
\* each, in list order
WarningsMatch ==
    /\ Len(errors) = cur - 1
    /\ \A j \in 1..Len(errors) :
          /\ errors[j].path = ports_to_try[j].path
          /\ errors[j].err = "open" <=> ~ports_to_try[j].ok

\* try_do_upload was called on opened candidates only, each at most once,
\* in list order, and on none after cur
AttemptsInOrder ==
    /\ \A a \in 1..Len(attempts) :
          /\ attempts[a] \in 1..Len(ports_to_try)
          /\ attempts[a] <= cur
          /\ ports_to_try[attempts[a]].ok
    /\ \A a, b \in 1..Len(attempts) : a < b => attempts[a] < attempts[b]

Attempted(j) == \E a \in 1..Len(attempts) : attempts[a] = j

\* C6: under SearchAll with two or more candidates, success names the
\* first candidate in list order whose open and upload both succeeded; each
\* earlier candidate failed and left exactly one warning; no later candidate
\* had an upload attempted
C6_SearchAllFirstSuccess ==
    (port = "SearchAll" /\ Len(ports_to_try) >= 2) =>
        /\ WarningsMatch
        /\ AttemptsInOrder
        /\ Succeeded =>
              /\ cur \in 1..Len(ports_to_try)
              /\ ports_to_try[cur].ok
              /\ result = Ok(ports_to_try[cur].path)
              /\ attempts[Len(attempts)] = cur
              /\ last.outcome = "acked" /\ last.cand = cur
              /\ Len(wire) = NumChunks(Len(file)) + 3
              /\ \A j \in 1..(cur - 1) :
                    /\ ~ports_to_try[j].ok \/ Attempted(j)
                    /\ errors[j].err \in {"open", "upload"}

C6_Witness ==
    /\ port = "SearchAll" /\ Succeeded
    /\ Len(ports_to_try) = 3
    /\ ~ports_to_try[1].ok /\ ~ports_to_try[2].ok
    /\ result = Ok(ports_to_try[3].path)
    /\ Len(errors) = 2
    /\ attempts = <<3>>

SendFailed == last.outcome \in {"write", "read", "unescape", "sequence"}

\* C7: outside SearchAll with more than one candidate the loop never moves
\* past the first candidate: its open or upload failure is the result at
\* once, nothing is recorded as a warning and no other candidate has an
\* upload attempted
C7_FirstFailureIsFinal ==
    ~(port = "SearchAll" /\ Len(ports_to_try) > 1) =>
        /\ cur = 1
        /\ errors = <<>>
        /\ \A a \in 1..Len(attempts) : attempts[a] = 1
        /\ Len(attempts) <= 1
        /\ (Len(ports_to_try) >= 1 /\ ~ports_to_try[1].ok /\ pc # "loop") =>
              /\ pc = "done"
              /\ result = Err("open", ports_to_try[1].path)
        /\ SendFailed =>
              /\ pc = "done"
              /\ result = Err("upload", ports_to_try[1].path)

C7_Witness ==
    /\ port = "SearchFirst"
    /\ Len(ports_to_try) >= 2
    /\ ports_to_try[2].ok
    /\ SendFailed
    /\ pc = "done" /\ result.kind = "err"

NoneWorked == pc = "done" /\ result = Err("none_worked", 0)

\* C8: the aggregate failure is returned exactly when the loop ran out of
\* candidates: each candidate was tried once in list order and left a
\* warning, or SearchFirst / SearchAll found no transport at all; it never
\* follows a success
C8_AggregateFailure ==
    /\ NoneWorked =>
          /\ port \in {"SearchFirst", "SearchAll"}
          /\ cur = Len(ports_to_try) + 1
          /\ WarningsMatch
          /\ AttemptsInOrder
          /\ \A j \in 1..Len(ports_to_try) : ports_to_try[j].ok <=> Attempted(j)
          /\ Len(ports_to_try) > 0 => (port = "SearchAll" /\ Len(ports_to_try) >= 2)
    /\ ( /\ pc = "done"
         /\ port \in {"SearchFirst", "SearchAll"}
         /\ enumerated
         /\ Len(errors) = Len(ports_to_try) ) => NoneWorked

C8_Witness ==
    /\ NoneWorked
    /\ Len(ports_to_try) = 3
    /\ ~ports_to_try[1].ok /\ ports_to_try[2].ok /\ ports_to_try[3].ok
    /\ attempts = <<2, 3>>

\* C9: dry_run with SearchAll fails validation with nothing enumerated,
\* opened, written or read
C9_DryRunSearchAllRejected ==
    (dry_run /\ port = "SearchAll") =>
        /\ pc \in {"call", "done"}
        /\ ~enumerated
        /\ opened = <<>> /\ ports_to_try = <<>>
        /\ wire = <<>> /\ attempts = <<>>
        /\ ~reads
        /\ pc = "done" => result = Err("validation", 0)

C9_Witness == dry_run /\ port = "SearchAll" /\ pc = "done" /\ result.kind = "err"

\* C10: a dry run in any other mode writes no frame, reads no
\* acknowledgement, leaves every sequence counter at 0 and returns the first
\* candidate's identifier once that candidate is open, whatever the image
C10_DryRunTouchesNothing ==
    (dry_run /\ port # "SearchAll") =>
        /\ pc \notin {"send", "read"}
        /\ wire = <<>> /\ attempts = <<>>
        /\ ~reads
        /\ \A c \in 1..Len(ports_to_try) : ports_to_try[c].sequence_number = 0
        /\ (pc = "done" /\ Len(ports_to_try) >= 1 /\ ports_to_try[1].ok) =>
              result = Ok(ports_to_try[1].path)
        /\ Succeeded => (cur = 1 /\ ports_to_try[1].ok)

C10_Witness ==
    /\ dry_run /\ port = "SearchFirst" /\ Succeeded
    /\ Len(file) > 0
    /\ Len(ports_to_try) >= 2
    /\ result = Ok(ports_to_try[1].path)

(* --------------------------- properties of the codec ------------------ *)

\* C11: for every byte sequence x, unescape applied to escape(x) without its
\* first and last byte succeeds and gives exactly x.
C11_RoundTrip ==
    u_pc = "decoded" => u_ret = [ok |-> TRUE, res |-> u_data]

\* a sequence with both special bytes has made the round trip
C11_Witness ==
    /\ u_pc = "decoded"
    /\ \E i, j \in 1..Len(u_data) : u_data[i] = SLIP_END /\ u_data[j] = SLIP_ESC
    /\ u_ret.res = u_data

\* the header and the checksum that create_packet puts around the data
HeaderOf(counter, data) == create_slip_header(counter, Len(data)).bytes
ChecksumOf(counter, data) ==
    to_le_bytes16(calc_crc16_default(HeaderOf(counter, data) \o data))

HasSpecial(bytes) == \E i \in 1..Len(bytes) : bytes[i] \in {SLIP_END, SLIP_ESC}

\* C12: the frame of create_packet has 0xC0 at its first and at its last
\* position and nowhere else, and every 0xDB in it is followed by 0xDC or
\* 0xDD, whatever the header, the payload and the checksum are.
C12_FrameShape ==
    u_pc = "packet" =>
        LET p == u_ret.res
        IN  /\ Len(p) >= 2
            /\ p[1] = SLIP_END
            /\ p[Len(p)] = SLIP_END
            /\ \A i \in 2..(Len(p) - 1) : p[i] # SLIP_END
            /\ \A i \in 1..Len(p) :
                   p[i] = SLIP_ESC =>
                       /\ i < Len(p)
                       /\ p[i + 1] \in {SLIP_ESC_END, SLIP_ESC_ESC}

\* a packet whose header holds a special byte and whose payload holds both
C12_Witness ==
    /\ u_pc = "packet"
    /\ HasSpecial(HeaderOf(u_seq, u_data))
    /\ \E i, j \in 1..Len(u_data) : u_data[i] = SLIP_END /\ u_data[j] = SLIP_ESC

\* a packet whose checksum holds a special byte
C12_WitnessChecksum ==
    /\ u_pc = "packet"
    /\ HasSpecial(ChecksumOf(u_seq, u_data))

\* the positions at which a left-to-right scan of bytes starts a unit: a
\* unit is an escape byte with the byte after it, or a single other byte
RECURSIVE ScanPositions(_, _)
ScanPositions(bytes, k) ==
    IF k > Len(bytes) THEN {}
    ELSE {k} \cup ScanPositions(bytes, IF bytes[k] = SLIP_ESC THEN k + 2 ELSE k + 1)

EscapePositions(bytes) == {k \in ScanPositions(bytes, 1) : bytes[k] = SLIP_ESC}

BadEscape(bytes) ==
    \E k \in EscapePositions(bytes) :
        \/ k = Len(bytes)
        \/ bytes[k + 1] \notin {SLIP_ESC_END, SLIP_ESC_ESC}

\* the byte a unit stands for
UnitValue(bytes, k) ==
    IF bytes[k] # SLIP_ESC THEN bytes[k]
    ELSE IF bytes[k + 1] = SLIP_ESC_END THEN SLIP_END
    ELSE SLIP_ESC

\* C13: unescape fails exactly when an escape byte in escape position is
\* followed by a byte other than 0xDC and 0xDD or by the end of the input;
\* otherwise it succeeds and gives one byte per unit: 0xC0 for [0xDB,0xDC],
\* 0xDB for [0xDB,0xDD], the byte itself for any other byte.
C13_UnescapeTotal ==
    u_pc = "unescaped" =>
        LET units_of == ScanPositions(u_data, 1)
            rank(k)  == Cardinality({j \in units_of : j <= k})
        IN  /\ u_ret.ok <=> ~BadEscape(u_data)
            /\ u_ret.ok =>
                   /\ Len(u_ret.res) = Cardinality(units_of)
                   /\ \A k \in units_of : u_ret.res[rank(k)] = UnitValue(u_data, k)

\* a failure on a dangling escape byte, and a success with both pairs
C13_WitnessFails ==
    /\ u_pc = "unescaped"
    /\ ~u_ret.ok
    /\ Len(u_data) > 1
    /\ u_data[Len(u_data)] = SLIP_ESC
    /\ ~BadEscape(SubSeq(u_data, 1, Len(u_data) - 1))

C13_Witness ==
    /\ u_pc = "unescaped"
    /\ u_ret = [ok |-> TRUE, res |-> <<SLIP_END, SLIP_ESC>>]
    /\ Len(u_data) = 4

(* ----------------------- properties of the interactive choice --------- *)

\* the operator's line is a number that indexes the presented list
ValidIndex(buf, list) == buf.kind = "number" /\ buf.n < Len(list)

\* the operator's line is text, or a number outside the presented list
Rejected(buf, list) ==
    \/ buf.kind = "text"
    \/ buf.kind = "number" /\ buf.n >= Len(list)

\* a prompt is up only over a non-empty list, and the failure on an empty
\* list comes before any line was read
C14_NoPromptOnEmpty ==
    /\ pc = "prompt" => Len(ports) > 0
    /\ result = Err("no_port", 0) => input = NoInput

\* the interactive selector either puts up the prompt or fails at once
C14_CallStep ==
    (pc = "call" /\ port = "ChooseInteractive") =>
        \/ pc' = "prompt" /\ Len(ports') > 0 /\ result' = NoResult
        \/ pc' = "done" /\ result' = Err("no_port", 0) /\ input' = NoInput

C14_PromptStep ==
    pc = "prompt" =>
        /\ Rejected(input', ports) =>
               /\ pc' = "prompt"
               /\ ports' = ports
               /\ result' = NoResult
        /\ pc' = "loop" =>
               /\ ValidIndex(input', ports)
               /\ Len(ports_to_try') = 1
               /\ ports_to_try'[1].path = ports[input'.n + 1].name
        /\ pc' = "done" => input'.kind = "io_error"

C14_WitnessReprompt ==
    /\ pc = "prompt"
    /\ Rejected(input, ports)
    /\ result = NoResult

(* ----------------------- properties of the candidate loop ------------- *)

OpenHandles == {k \in 1..Len(ports_to_try) : ports_to_try[k].open}

\* C15: candidates are opened one at a time in list order: candidate k+1 is
\* opened only after the attempt on candidate k has ended in failure, so
\* never are two candidate transports open, and none is opened after an
\* earlier one succeeded.
C15_OpenedOneAtATime ==
    /\ Cardinality(OpenHandles) <= 1
    /\ \A k \in 1..Len(opened) : k <= cur
    /\ Succeeded => Len(opened) = cur

\* the number of the send_data call try_do_upload is at
CallNumber ==
    CASE stage = "start" -> 1
      [] stage = "init"  -> 2
      [] stage = "data"  -> 3 + index
      [] stage = "stop"  -> 3 + NumChunks(Len(file))

\* every call wrote one frame: none is missing and none was written twice
C16_OneWritePerCall ==
    /\ pc = "send" => Len(wire) = CallNumber - 1
    /\ pc = "read" => Len(wire) = CallNumber

\* a failed send_data is the end of the attempt on its candidate
C16_FailureEndsAttempt ==
    SendFailed =>
        /\ pc \in {"loop", "done"}
        /\ Len(wire) = CallNumber
        /\ \A k \in 1..Len(wire) : wire[k].cand = last.cand
        /\ ~ports_to_try[last.cand].open
        /\ attempts[Len(attempts)] = last.cand
        /\ pc = "done" => result = Err("upload", ports_to_try[last.cand].path)
        /\ pc = "loop" =>
              /\ cur = last.cand + 1
              /\ errors[Len(errors)] =
                     [err |-> "upload", path |-> ports_to_try[last.cand].path]

\* frames are written one per step, by a send_data call that follows no
\* failure; after a failure the next frame belongs to another candidate
C16_WriteStep ==
    /\ Len(wire') > Len(wire) =>
          /\ pc = "send"
          /\ ~SendFailed
          /\ wire' = Append(wire, wire'[Len(wire')])
          /\ wire'[Len(wire')].cand = cur
    /\ SendFailed =>
          \/ wire' = wire
          \/ wire' = <<>> /\ attempts' = Append(attempts, cur) /\ cur > last.cand

\* C16: in one attempt every send_data call writes its frame once and is
\* never made again, and after the first failing send_data (write, read,
\* framing or sequence failure) nothing more is written to that candidate:
\* the attempt ends with that failure.
C16_NoResend ==
    /\ [](C16_OneWritePerCall /\ C16_FailureEndsAttempt /\ AttemptsInOrder)
    /\ [][C16_WriteStep]_vars

\* the third send_data of an attempt got a wrong number, and the loop goes on
C16_Witness ==
    /\ last.outcome = "sequence"
    /\ Len(wire) >= 3
    /\ pc = "loop"
    /\ cur <= Len(ports_to_try)

(* ----------------------- properties of wait_for_ack ------------------- *)

LoopExited == a_pc = "returned" /\ a_ret.kind \in {"ok", "unescape_error", "panic"}

\* C17: the watcher prints its message only if the timeout ran out while
\* the read had not returned; when the read returns before the timeout, with
\* data or with an I/O error, nothing is printed; and what wait_for_ack
\* returns does not depend on the watcher.
C17_DiagnosticOnlyOnTimeout ==
    /\ printed # "no" => elapsed
    /\ (a_pc = "returned" /\ ~elapsed) => printed = "no"
    /\ LoopExited => a_ret = ack_result(a_response)

\* C18: when the read loop exits, the accumulated bytes are one complete
\* framed acknowledgement: the first and the last byte are the 0xC0 markers,
\* there is no third marker, and the acknowledged number is in the byte
\* after the opening marker.
C18_ExactlyOneFrame ==
    LoopExited =>
        /\ a_response[1] = SLIP_END
        /\ a_response[Len(a_response)] = SLIP_END
        /\ count_markers(a_response, 1) = 2
        /\ a_ret.kind = "ok" => a_ret.val = And(Shr(a_response[2], 3), 7)

\* C19: the acknowledgement wait ends, whatever the device delivers, also
\* when every window it delivers is without a 0xC0 marker.
C19_WaitEnds == <>(a_pc = "returned")

(* ----------------------- properties of the handles -------------------- *)

\* the attempt on candidate k is over: the loop has moved past it, or
\* upload has returned
AttemptEnded(k) == k < cur \/ pc = "done"

\* C20: once the attempt on a candidate has ended, by success, dry-run
\* success, a failure that is returned or a failure after which the loop
\* goes on, that candidate's handle is closed; when upload has returned, no
\* handle that it opened is open.
C20_HandlesClosed ==
    /\ \A k \in 1..Len(ports_to_try) : AttemptEnded(k) => ~ports_to_try[k].open
    /\ pc = "done" => OpenHandles = {}
    /\ \A k \in OpenHandles : ports_to_try[k].ok /\ opened[k].ok

\* upload returned Ok after the first of three opened candidates had failed
C20_Witness ==
    /\ Succeeded
    /\ ~dry_run
    /\ cur = 2
    /\ Len(opened) = 3
    /\ \A k \in 1..3 : opened[k].ok
    /\ OpenHandles = {}

(* ----------------------- properties of the header --------------------- *)

\* C21: for every sequence number s in 0..7 and every length n < 0x1000 the
\* four header bytes sum to 0 modulo 256, byte 0 is s | (((s+1) mod 8) << 3)
\* | 0xC0, the low nibble of byte 1 is 14, n is (byte1 >> 4) | (byte2 << 4),
\* and the number send_data requires in the acknowledgement is the field in
\* bits 3..5 of byte 0.
C21_HeaderLayout ==
    u_pc = "header" =>
        LET b == u_ret.res
            s == u_seq
        IN  /\ Len(b) = 4
            /\ \A i \in 1..4 : b[i] \in 0..255
            /\ (b[1] + b[2] + b[3] + b[4]) % 256 = 0
            /\ s \in 0..7
            /\ b[1] = s + 8 * ((s + 1) % 8) + 192
            /\ b[2] % 16 = 14
            /\ u_len = (b[2] \div 16) + 16 * b[3]
            /\ \A res \in 0..7 : ack_matches(res, s) <=> res = (b[1] \div 8) % 8

\* the header of the longest packet, sent with sequence number 7, whose
\* acknowledgement has to report 0
C21_Witness ==
    /\ u_pc = "header"
    /\ u_seq = 7
    /\ u_len = PKT_LEN_LIMIT - 1
    /\ u_ret.res[2] = 254
    /\ u_ret.res[3] = 255
    /\ (u_ret.res[1] \div 8) % 8 = 0

\* the unescaped vector wait_for_ack slices and indexes
C22_Unescaped == unescape(a_response)

\* C22: wait_for_ack never indexes outside its buffer: whenever the read
\* loop has exited and unescape succeeded, the unescaped vector has at
\* least 3 bytes, so the message without the first and the last byte is
\* not empty and message[0] is read.
C22_NoIndexOutOfRange ==
    /\ a_ret.kind # "panic"
    /\ (LoopExited /\ C22_Unescaped.ok) =>
           /\ Len(C22_Unescaped.res) >= 3
           /\ a_ret.kind = "ok"
           /\ a_ret.val \in 0..7

\* the loop exited on one window of two markers and two escape pairs, the
\* shortest vector unescape can give
C22_Witness ==
    /\ LoopExited
    /\ a_ret.kind = "ok"
    /\ Len(a_response) = READ_WINDOW
    /\ Len(C22_Unescaped.res) = 4

====
